---------------------------- MODULE Spec2Model ----------------------------
(***************************************************************************)
(* ScraperMaster API: the scrape request pipeline (scrape_url ->           *)
(* scrape_url_content, in its two variants src/main.py and                 *)
(* src/controllers/scraper_pipelines.py) and the cookie-consent resolver   *)
(* handle_cookie_dialogs, as a state machine.                              *)
(*                                                                         *)
(* The browser (Playwright), the page and the markdown renderer are the    *)
(* environment: every awaited page operation either completes or raises,   *)
(* chosen nondeterministically at the step that awaits it.                 *)
(***************************************************************************)
EXTENDS Integers, Sequences, FiniteSets, TLC

(***************************************************************************)
(* Bounds of the model (not program constants).                            *)
(***************************************************************************)
MaxFrames == 2
\* How far past a cap the page's image and link counts go.
Over == 1

(***************************************************************************)
(* Program constants.                                                      *)
(***************************************************************************)
\* images[:20]  (src/controllers/scraper_pipelines.py 82)
ImageCap == 20
\* links[:50]   (src/main.py 301, src/controllers/scraper_pipelines.py 83)
LinkCap == 50

(***************************************************************************)
(* handle_cookie_dialogs: the two candidate lists (src/main.py 516-534 and *)
(* 551-567).                                                               *)
(***************************************************************************)
consent_buttons ==
    << "I Accept", "Accept All", "Accept", "Agree to all", "Agree",
       "Continue", "OK", "Got it", "Allow", "Allow all", "Allow cookies",
       "Allow all cookies", "Yes", "Acepto", "Aceptar", "Alle akzeptieren" >>

common_cookie_selectors ==
    << "button#accept", "button#acceptAll", "button.accept-cookies",
       "button.accept-all-cookies", "button.cookie-accept",
       "button.cookie-accept-all", "button.js-accept-cookies",
       "button.js-accept-all-cookies",
       "button[data-testid=cookie-policy-dialog-accept-button]",
       "#cookieConsentAcceptAll", ".cookie-banner__accept-all",
       ".cookie-consent__accept", ".cookie-accept-all-button",
       "#onetrust-accept-btn-handler", ".css-47sehv" >>

NLabels == Len(consent_buttons)
NSelectors == Len(common_cookie_selectors)

(***************************************************************************)
(* Outcomes of one awaited page operation.  "skip" marks an operation the  *)
(* attempt did not issue.                                                  *)
(***************************************************************************)
OpOutcomes == {"ok", "raise"}

VARIABLES
    fn,         \* the function that runs: scrape_url_content of "main" or of
                \* "pipelines", or capture_screenshots_playwright ("screenshots")
    pc,         \* position of the request inside scrape_url / scrape_url_content
    browser,    \* "none", "open" or "closed"
    closeCalls, \* calls of browser.close() so far
    html,       \* page.content(), once read (None before)
    images,     \* what the first page.evaluate returned
    links,      \* what the second page.evaluate returned
    proc,       \* the locals of the processing block
    content,    \* the keyword arguments of the ScrapedContent(...) call
    exc,        \* the exception scrape_url_content raised (NoExc if none)
    origin,     \* the exception first raised inside it, and the step it left
    handled,    \* how the call of handle_cookie_dialogs ended ("none" before)
    response,   \* HTTP status the /scrape endpoint answered (0 before)
    rpc,        \* position inside handle_cookie_dialogs ("idle" when not running)
    idx,        \* index of the current label / selector candidate
    fidx,       \* index of the current frame of page.frames
    nframes,    \* len(page.frames), once read
    ret,        \* value returned by handle_cookie_dialogs
    clicks,     \* click calls that completed successfully in this invocation
    firstClick, \* the strategy of the first of them ("none" before)
    tried,      \* attempts started per strategy in this invocation
    last,       \* the page operations of the latest resolver step
    req,        \* the requests the server is handling (several at a time)
    chromium,   \* the browsers launched for them and still running
    screenshots_base64, \* the dictionary capture_screenshots_playwright fills
    total_screenshots   \* total_screenshots of the /screenshots answer (0 before)

rvars == << rpc, idx, fidx, nframes, ret, clicks, firstClick, tried, last >>
cvars == << screenshots_base64, total_screenshots >>
qvars == << fn, pc, browser, closeCalls, html, images, links, proc, content,
            exc, origin, handled, response, cvars >>
svars == << req, chromium >>
vars == << fn, pc, browser, closeCalls, html, images, links, proc, content,
           exc, origin, handled, response,
           rpc, idx, fidx, nframes, ret, clicks, firstClick, tried, last,
           req, chromium, screenshots_base64, total_screenshots >>

NoTried == [text |-> 0, selector |-> 0, frame |-> 0]
NoStep == [strategy |-> "none", idx |-> 0, frame |-> 0,
           count |-> "skip", click |-> "skip", wait |-> "skip"]


(***************************************************************************)
(* Documents.  An HTML string is represented by the tree it parses to      *)
(* (BeautifulSoup(html, 'html.parser')): an element is                     *)
(* [tag, cls, text, kids]; a text node has tag "#text" and carries its     *)
(* whitespace-separated words in text.  The word " " is a whitespace-only  *)
(* string.                                                                 *)
(***************************************************************************)
El(tag, cls, kids) == [tag |-> tag, cls |-> cls, text |-> << >>, kids |-> kids]
Tx(words) == [tag |-> "#text", cls |-> "", text |-> words, kids |-> << >>]
Soup(kids) == El("[document]", "", kids)
None == [tag |-> "#none", cls |-> "", text |-> << >>, kids |-> << >>]

RECURSIVE Concat(_)
Concat(ss) == IF ss = << >> THEN << >> ELSE Head(ss) \o Concat(Tail(ss))

RECURSIVE DescendantsOf(_)
\* The nodes of a sequence of siblings and everything below them, in
\* document order.
DescendantsOf(kids) ==
    IF kids = << >> THEN << >>
    ELSE << Head(kids) >> \o DescendantsOf(Head(kids).kids)
                          \o DescendantsOf(Tail(kids))

\* Every node below n, in document order (Tag.descendants).
Descendants(n) == DescendantsOf(n.kids)

\* Tag.find_all(names): the descendant elements with one of the names.
FindAll(n, names) == SelectSeq(Descendants(n), LAMBDA d : d.tag \in names)

\* Tag.find(name): the first of find_all, or None.
Find(n, names) ==
    LET all == FindAll(n, names) IN IF all = << >> THEN None ELSE all[1]

RECURSIVE DecomposeKids(_, _)
DecomposeKids(kids, names) ==
    IF kids = << >> THEN << >>
    ELSE IF Head(kids).tag \in names THEN DecomposeKids(Tail(kids), names)
    ELSE << [Head(kids) EXCEPT !.kids = DecomposeKids(Head(kids).kids, names)] >>
         \o DecomposeKids(Tail(kids), names)

\* Faulty variant: only the children of the document node are examined.
DecomposeShallow(n, names) ==
    [n EXCEPT !.kids = SelectSeq(n.kids, LAMBDA k : k.tag \notin names)]

\* `for element in soup(names): element.decompose()`: every element with one
\* of the names is removed with its subtree.
Decompose(n, names) == [n EXCEPT !.kids = DecomposeKids(n.kids, names)]

Contains(n, root) == n.tag = root \/ Find(n, {root}) # None

RECURSIVE DecomposeUnder(_, _, _)
RECURSIVE DecomposeFirst(_, _, _)
\* The same removal applied below the first element called `root` only
\* (body_soup = soup.find('body'); body_soup(['script','style'])): the tree
\* the element was found in is changed in place.
DecomposeUnder(n, root, names) ==
    IF n.tag = root THEN Decompose(n, names)
    ELSE [n EXCEPT !.kids = DecomposeFirst(n.kids, root, names)]

DecomposeFirst(kids, root, names) ==
    IF kids = << >> THEN << >>
    ELSE IF Contains(Head(kids), root)
           THEN << DecomposeUnder(Head(kids), root, names) >> \o Tail(kids)
           ELSE << Head(kids) >> \o DecomposeFirst(Tail(kids), root, names)

RECURSIVE WordsOf(_)
WordsOf(nodes) ==
    IF nodes = << >> THEN << >> ELSE Head(nodes).text \o WordsOf(Tail(nodes))

\* Tag.get_text(): the words of all text nodes below n, in document order.
GetText(n) ==
    IF n.tag = "#text" THEN n.text ELSE WordsOf(Descendants(n))

\* Tag.get_text(strip=True): whitespace-only strings are dropped.
GetTextStrip(n) == SelectSeq(GetText(n), LAMBDA w : w # " ")

\* re.compile('content|main|article').search(class): the class names of the
\* documents below that contain one of the three words.
ContentClasses == {"content", "main-content", "article-body"}

\* soup.find('div', class_=re.compile('content|main|article'))
FindContentDiv(n) ==
    LET all == SelectSeq(Descendants(n),
                         LAMBDA d : d.tag = "div" /\ d.cls \in ContentClasses)
    IN IF all = << >> THEN None ELSE all[1]

UnwantedTags == {"script", "style", "nav", "footer", "header", "aside"}

\* Faulty variant: article is looked for before main.
clean_and_organize_content_article_first(html_content) ==
    LET soup == Decompose(html_content, UnwantedTags)
        main == Find(soup, {"main"})
        article == Find(soup, {"article"})
        div == FindContentDiv(soup)
    IN IF article # None THEN article
       ELSE IF main # None THEN main
       ELSE IF div # None THEN div
       ELSE soup

\* ContentProcessor.clean_and_organize_content
clean_and_organize_content(html_content) ==
    LET soup == Decompose(html_content, UnwantedTags)
        main == Find(soup, {"main"})
        article == Find(soup, {"article"})
        div == FindContentDiv(soup)
    IN IF main # None THEN main
       ELSE IF article # None THEN article
       ELSE IF div # None THEN div
       ELSE soup

\* markdownify (external): the ATX markdown of a tree, kept as the words it
\* renders, each heading word prefixed by its marker.
RECURSIVE mdOf(_)
mdOf(nodes) ==
    IF nodes = << >> THEN << >>
    ELSE LET n == Head(nodes)
             inner == mdOf(n.kids)
             here == IF n.tag = "#text" THEN SelectSeq(n.text, LAMBDA w : w # " ")
                     ELSE IF n.tag \in {"h1", "h2", "h3", "h4", "h5", "h6"}
                             /\ inner # << >>
                            THEN << "#" >> \o inner
                     ELSE inner
         IN here \o mdOf(Tail(nodes))

md(n) == mdOf(<< n >>)

(***************************************************************************)
(* The pattern library: re.findall of each pattern of the source on each   *)
(* word of the documents below.  Words are separated by whitespace, so the *)
(* matches of a text are the matches of its words, in order.               *)
(***************************************************************************)
\* amount_patterns (src/main.py 40-46), by name and in order.
amount_patterns == << "dollar", "euro", "pound", "code", "number" >>

\* re.findall(amount pattern p, w, re.IGNORECASE)
AmountFindall(p, w) ==
    CASE p = "dollar" /\ w = "$1,200.50" -> << "$1,200.50" >>
      [] p = "euro" /\ w = "€300" -> << "€300" >>
      [] p = "code" /\ w = "100 USD" -> << "100 USD" >>
      [] p = "number" /\ w = "$1,200.50" -> << "1,200.50" >>
      [] p = "number" /\ w = "€300" -> << "300" >>
      [] p = "number" /\ w = "100 USD" -> << "100" >>
      [] p = "number" /\ w = "555-123-4567" -> << "555", "123" >>
      [] p = "number" /\ w = "12/05/2024" -> << "12", "05" >>
      [] OTHER -> << >>

\* email_pattern (lines 91, 265)
EmailFindall(w) == IF w = "a.b+c@test.co.uk" THEN << w >> ELSE << >>

\* phone_pattern and the filter of the comprehension (lines 92-95, 269-270)
PhoneFindall(w) == IF w = "555-123-4567" THEN << w >> ELSE << >>

\* name_patterns (lines 98-103): the captured group
NameFindall(w) == IF w = "Contact: John Smith" THEN << "John Smith" >> ELSE << >>

\* date_patterns (lines 117-121)
DateFindall(w) == IF w = "12/05/2024" THEN << w >> ELSE << >>

Range(f) == {f[k] : k \in DOMAIN f}

\* The orders list(set(xs)) can give: every enumeration of the set.
Orders(S) ==
    {q \in [1..Cardinality(S) -> S] : \A a, b \in DOMAIN q : a # b => q[a] # q[b]}

\* The matches of one pattern in a text, in order of occurrence.
\* re.findall of pattern `pat` on one word.
WordFindall(pat, w) ==
    CASE pat = "email" -> EmailFindall(w)
      [] pat = "phone" -> PhoneFindall(w)
      [] pat = "name" -> NameFindall(w)
      [] pat = "date" -> DateFindall(w)
      [] OTHER -> AmountFindall(pat, w)

RECURSIVE FindallText(_, _)
FindallText(pat, text) ==
    IF text = << >> THEN << >>
    ELSE WordFindall(pat, Head(text)) \o FindallText(pat, Tail(text))

\* ContentProcessor.extract_amounts before `list(set(amounts))`: the matches
\* of the five patterns, pattern by pattern.
RECURSIVE AmountMatchesFrom(_, _)
AmountMatchesFrom(p, text) ==
    IF p > Len(amount_patterns) THEN << >>
    ELSE FindallText(amount_patterns[p], text)
         \o AmountMatchesFrom(p + 1, text)

AmountMatches(text) == AmountMatchesFrom(1, text)

\* Faulty variant: a row is kept only when one of its cells has text.
ExtractTablesDropsBlank(soup) ==
    LET tables == FindAll(soup, {"table"})
        RowOf(tr) == LET cells == FindAll(tr, {"td", "th"})
                     IN [c \in 1..Len(cells) |-> GetTextStrip(cells[c])]
        RowsOf(t) == LET trs == FindAll(t, {"tr"})
                     IN SelectSeq([r \in 1..Len(trs) |-> RowOf(trs[r])],
                                  LAMBDA row : \E c \in 1..Len(row) : row[c] # << >>)
    IN SelectSeq([t \in 1..Len(tables) |-> RowsOf(tables[t])],
                 LAMBDA rows : rows # << >>)

\* ContentProcessor.extract_structured_data, the tag walks (lines 66-87).
\* `if row:` and `if rows:` test the lists for emptiness: a row is dropped
\* when it has no cell, a table when it has no row left.
ExtractTables(soup) ==
    LET tables == FindAll(soup, {"table"})
        RowOf(tr) == LET cells == FindAll(tr, {"td", "th"})
                     IN [c \in 1..Len(cells) |-> GetTextStrip(cells[c])]
        RowsOf(t) == LET trs == FindAll(t, {"tr"})
                     IN SelectSeq([r \in 1..Len(trs) |-> RowOf(trs[r])],
                                  LAMBDA row : row # << >>)
    IN SelectSeq([t \in 1..Len(tables) |-> RowsOf(tables[t])],
                 LAMBDA rows : rows # << >>)

ExtractLists(soup) ==
    LET uls == FindAll(soup, {"ul", "ol"})
        ItemsOf(ul) == LET lis == FindAll(ul, {"li"})
                       IN [c \in 1..Len(lis) |-> GetTextStrip(lis[c])]
    IN SelectSeq([u \in 1..Len(uls) |-> ItemsOf(uls[u])],
                 LAMBDA items : items # << >>)

HeadingTags == {"h1", "h2", "h3", "h4", "h5", "h6"}

ExtractHeadings(soup) ==
    LET present == {h \in HeadingTags : FindAll(soup, {h}) # << >>}
    IN [h \in present |->
          LET hs == FindAll(soup, {h})
          IN [c \in 1..Len(hs) |-> GetTextStrip(hs[c])]]

(***************************************************************************)
(* handle_cookie_dialogs (src/main.py 512-604)                             *)
(***************************************************************************)

\* What one attempt can observe: <<count, click, wait>>.  An operation that
\* raised ends the attempt, so the later ones are not issued.
ClickOutcomes == { <<"skip", "raise", "skip">>,
                   <<"skip", "ok", "ok">>,
                   <<"skip", "ok", "raise">> }

LocateOutcomes == { <<"raise", "skip", "skip">>,
                    <<"zero", "skip", "skip">>,
                    <<"pos", "raise", "skip">>,
                    <<"pos", "ok", "ok">>,
                    <<"pos", "ok", "raise">> }

Step(s, i, f, o) == [strategy |-> s, idx |-> i, frame |-> f,
                     count |-> o[1], click |-> o[2], wait |-> o[3]]

\* `if await locator.count() > 0:` guards the click of the selector and the
\* frame strategies (lines 571, 587).
IssuesClick(count) == count = "pos"

\* The try body reaches `return True` only when the click and the settle
\* wait after it both completed (lines 543-546, 572-575, 588-591).
ReachesReturnTrue(st) == st.click = "ok" /\ st.wait = "ok"

\* An exception of the attempt lands in `except Exception: continue`.
Raised(st) == "raise" \in {st.count, st.click, st.wait}

\* Faulty variant: a failed label ends the text strategy (`break` for `continue`).
NextTextBreaks(i) == [rpc |-> "selector", idx |-> 1]

\* `for button in consent_buttons: ... continue`, then the selector loop.
NextText(i) ==
    IF i < NLabels THEN [rpc |-> "text", idx |-> i + 1]
                   ELSE [rpc |-> "selector", idx |-> 1]

\* Faulty variant: after the last selector the text strategy is run once more.
NextSelectorRestarts(i) ==
    IF i < NSelectors THEN [rpc |-> "selector", idx |-> i + 1]
    ELSE IF tried.text = NLabels THEN [rpc |-> "text", idx |-> 1]
    ELSE [rpc |-> "frames", idx |-> 0]

\* `for selector in common_cookie_selectors: ... continue`, then page.frames.
NextSelector(i) ==
    IF i < NSelectors THEN [rpc |-> "selector", idx |-> i + 1]
                      ELSE [rpc |-> "frames", idx |-> 0]

\* Faulty variant: a failed label abandons its frame (`break` for `continue`).
NextFrameBreaks(f, i, n) ==
    IF f < n THEN [rpc |-> "frame", fidx |-> f + 1, idx |-> 1]
    ELSE [rpc |-> "end", fidx |-> 0, idx |-> 0]

\* `for frame in frames: for button in consent_buttons: ... continue`.
NextFrame(f, i, n) ==
    IF i < NLabels THEN [rpc |-> "frame", fidx |-> f, idx |-> i + 1]
    ELSE IF f < n THEN [rpc |-> "frame", fidx |-> f + 1, idx |-> 1]
    ELSE [rpc |-> "end", fidx |-> 0, idx |-> 0]

\* Faulty variant: the outermost handler re-raises.
OuterExceptPropagates == [rpc |-> "raised", ret |-> FALSE]

\* The outermost handler (lines 602-604): print and `return False`.
OuterExcept == [rpc |-> "returned", ret |-> FALSE]

\* Bookkeeping: the strategy whose click completed first.
FirstClick(st) ==
    IF firstClick = "none" /\ st.click = "ok" THEN st.strategy ELSE firstClick

\* Line 537: `await page.wait_for_timeout(1000)`, inside the outer try only.
InitialWait ==
    /\ pc = "dialog" /\ rpc = "idle"
    /\ \E w \in OpOutcomes :
         /\ last' = Step("wait", 0, 0, << "skip", "skip", w >>)
         /\ IF w = "ok"
              THEN rpc' = "text" /\ idx' = 1 /\ ret' = ret
              ELSE rpc' = OuterExcept.rpc /\ idx' = 0 /\ ret' = OuterExcept.ret
    /\ clicks' = 0 /\ firstClick' = "none" /\ tried' = NoTried
    /\ UNCHANGED << qvars, fidx, nframes, svars >>

\* Lines 540-548: one iteration of the text-match loop on the main page.
TextAttempt ==
    /\ rpc = "text"
    /\ \E o \in ClickOutcomes :
         LET st == Step("text", idx, 0, o)
             nx == NextText(idx)
         IN /\ last' = st
            /\ clicks' = IF st.click = "ok" THEN clicks + 1 ELSE clicks
            /\ firstClick' = FirstClick(st)
            /\ tried' = [tried EXCEPT !.text = @ + 1]
            /\ IF ReachesReturnTrue(st)
                 THEN rpc' = "returned" /\ ret' = TRUE /\ idx' = idx
                 ELSE rpc' = nx.rpc /\ idx' = nx.idx /\ ret' = ret
    /\ UNCHANGED << qvars, fidx, nframes, svars >>

\* Lines 569-577: one iteration of the selector loop.
SelectorAttempt ==
    /\ rpc = "selector"
    /\ \E o \in LocateOutcomes :
         LET st == Step("selector", idx, 0, o)
             nx == NextSelector(idx)
         IN /\ IssuesClick(st.count) <=> st.click # "skip"
            /\ last' = st
            /\ clicks' = IF st.click = "ok" THEN clicks + 1 ELSE clicks
            /\ firstClick' = FirstClick(st)
            /\ tried' = [tried EXCEPT !.selector = @ + 1]
            /\ IF ReachesReturnTrue(st)
                 THEN rpc' = "returned" /\ ret' = TRUE /\ idx' = idx
                 ELSE rpc' = nx.rpc /\ idx' = nx.idx /\ ret' = ret
    /\ UNCHANGED << qvars, fidx, nframes, svars >>

\* Faulty variant: only the last frame is visited.
FirstFrameLast(n) ==
    IF n > 0 THEN [rpc |-> "frame", fidx |-> n, idx |-> 1]
             ELSE [rpc |-> "end", fidx |-> 0, idx |-> 0]

\* `for frame in frames: for button in consent_buttons:` starts at the first
\* label in the first frame; with no frame the loop is passed.
FirstFrame(n) ==
    IF n > 0 THEN [rpc |-> "frame", fidx |-> 1, idx |-> 1]
             ELSE [rpc |-> "end", fidx |-> 0, idx |-> 0]

\* Lines 580-581 and 596-597: `frames = page.frames`; a failure is passed over.
ReadFrames ==
    /\ rpc = "frames"
    /\ \E o \in OpOutcomes, n \in 0..MaxFrames :
         LET nx == FirstFrame(n)
         IN /\ o = "raise" => n = 0
            /\ last' = Step("frames", 0, 0, << o, "skip", "skip" >>)
            /\ nframes' = n
            /\ rpc' = nx.rpc /\ fidx' = nx.fidx /\ idx' = nx.idx
    /\ UNCHANGED << qvars, ret, clicks, firstClick, tried, svars >>

\* Lines 585-593: one iteration of the label loop inside one frame.
FrameAttempt ==
    /\ rpc = "frame"
    /\ \E o \in LocateOutcomes :
         LET st == Step("frame", idx, fidx, o)
             nx == NextFrame(fidx, idx, nframes)
         IN /\ IssuesClick(st.count) <=> st.click # "skip"
            /\ last' = st
            /\ clicks' = IF st.click = "ok" THEN clicks + 1 ELSE clicks
            /\ firstClick' = FirstClick(st)
            /\ tried' = [tried EXCEPT !.frame = @ + 1]
            /\ IF ReachesReturnTrue(st)
                 THEN rpc' = "returned" /\ ret' = TRUE
                      /\ idx' = idx /\ fidx' = fidx
                 ELSE rpc' = nx.rpc /\ idx' = nx.idx /\ fidx' = nx.fidx
                      /\ ret' = ret
    /\ UNCHANGED << qvars, nframes, svars >>

\* Lines 599-600: nothing handled, `return False`.
ReturnFalse ==
    /\ rpc = "end"
    /\ rpc' = "returned" /\ ret' = FALSE
    /\ UNCHANGED << qvars, idx, fidx, nframes, clicks, firstClick, tried, last, svars >>

Resolver ==
    \/ InitialWait
    \/ TextAttempt
    \/ SelectorAttempt
    \/ ReadFrames
    \/ FrameAttempt
    \/ ReturnFalse

(***************************************************************************)
(* The pages the browser can show.                                         *)
(***************************************************************************)
P(words) == El("p", "", << Tx(words) >>)

\* A typical page: header/nav, main with a heading and a table, footer, and
\* a script inside body.
DocTypical ==
    Soup(<< El("html", "", <<
        El("head", "", << El("style", "", << Tx(<< "var x" >>) >>) >>),
        El("body", "", <<
            El("header", "", << El("nav", "", << El("ul", "", <<
                El("li", "", << Tx(<< "Home" >>) >>),
                El("li", "", << Tx(<< "About" >>) >>) >>) >>) >>),
            El("main", "", <<
                El("h1", "", << Tx(<< "Prices" >>) >>),
                P(<< "Total:", "$1,200.50" >>),
                El("table", "", <<
                    El("tr", "", << El("th", "", << Tx(<< "Item" >>) >>),
                                    El("th", "", << Tx(<< " " >>) >>) >>),
                    El("tr", "", << >>) >>) >>),
            El("footer", "", << P(<< "Contact: John Smith" >>) >>),
            El("script", "", << Tx(<< "€300" >>) >>) >>) >>) >>)

\* article before main, and a table with one empty cell inside aside.
DocArticleMain ==
    Soup(<< El("body", "", <<
        El("article", "", << El("h2", "", << Tx(<< "News" >>) >>),
                             P(<< "12/05/2024" >>) >>),
        El("main", "", << P(<< "a.b+c@test.co.uk" >>) >>),
        El("aside", "", << El("table", "", <<
            El("tr", "", << El("td", "", << >>) >>) >>) >>) >>) >>)

\* No body; a div with a content class; nested lists and an empty list.
DocFragment ==
    Soup(<< El("div", "wrapper", <<
        El("div", "main-content", <<
            El("ul", "", <<
                El("li", "", << Tx(<< "A" >>),
                                El("ul", "", << El("li", "", << Tx(<< "B" >>) >>) >>) >>),
                El("li", "", << Tx(<< "C" >>) >>) >>),
            El("ol", "", << >>) >>),
        P(<< "555-123-4567" >>) >>) >>)

\* Nothing to narrow to: the whole cleaned document is the content.
DocPlain ==
    Soup(<< El("body", "", << El("div", "", <<
        El("h1", "", << Tx(<< "One" >>) >>),
        El("h1", "", << Tx(<< "Two" >>) >>),
        El("h3", "", << Tx(<< "Three" >>) >>),
        P(<< "100 USD" >>) >>) >>) >>)

DocEmpty == Soup(<< >>)

\* Tables only: one whose single row has no cell, and one with a row of two
\* empty cells followed by a row without cells.
DocTables ==
    Soup(<< El("body", "", <<
        El("table", "", << El("tr", "", << >>) >>),
        El("table", "", <<
            El("tr", "", << El("td", "", << Tx(<< " " >>) >>),
                            El("td", "", << >>) >>),
            El("tr", "", << >>) >>) >>) >>)

\* A section and a div that both carry a content class, the section first.
DocSection ==
    Soup(<< El("body", "", <<
        El("section", "content", << P(<< "S" >>) >>),
        El("div", "article-body", << P(<< "D" >>) >>) >>) >>)

\* main inside aside; an article holding unwanted elements at several depths.
DocMainAside ==
    Soup(<< El("body", "", <<
        El("aside", "", << El("main", "", <<
            P(<< "M" >>), El("style", "", << Tx(<< "c" >>) >>) >>) >>),
        El("article", "", <<
            El("h2", "", << Tx(<< "T" >>) >>),
            El("nav", "", << El("ul", "", <<
                El("li", "", << Tx(<< "x" >>) >>) >>) >>),
            El("div", "", << El("script", "", << Tx(<< "s" >>) >>),
                             El("footer", "", << P(<< "f" >>) >>) >>),
            P(<< "A" >>) >>) >>) >>)

Docs == {DocTypical, DocArticleMain, DocFragment, DocPlain, DocEmpty,
         DocTables, DocSection, DocMainAside}

(***************************************************************************)
(* The processing block of scrape_url_content.                             *)
(***************************************************************************)
\* The statements of the processing block that can raise, in order
\* (src/main.py 242-276; src/controllers/scraper_pipelines.py 61-66).
ProcSteps(f) ==
    IF f = "main"
      THEN << "clean", "md", "parse", "body", "emails", "phones", "amounts",
              "tables", "lists", "headings", "contacts", "dates" >>
      ELSE << "clean", "md", "parse", "amounts",
              "tables", "lists", "headings", "contacts", "dates" >>

SubExtractions == {"tables", "lists", "headings", "contacts", "dates", "amounts"}

NoProc == [failed |-> "none", done |-> FALSE]

\* Faulty variant: the extractors are given the narrowed, cleaned tree.
ExtractionSoupNarrowed(f, doc) == clean_and_organize_content(doc)

\* The tree the extractors read: main.py removes script and style below
\* body from the parsed tree before extracting (lines 255-259); the
\* controllers variant extracts from the tree as parsed.
ExtractionSoup(f, doc) ==
    IF f = "main" THEN DecomposeUnder(doc, "body", {"script", "style"}) ELSE doc

\* clean_body_html (lines 255-262)
CleanBodyHtml(doc) ==
    LET body == Find(DecomposeUnder(doc, "body", {"script", "style"}), {"body"})
    IN IF body # None THEN body ELSE Soup(<< >>)

EmailSet(soup) == Range(FindallText("email", GetText(soup)))
PhoneList(soup) == FindallText("phone", GetText(soup))
NameSet(soup) == Range(FindallText("name", GetText(soup)))
DateSet(soup) == Range(FindallText("date", GetText(soup)))
AmountSet(soup) == Range(AmountMatches(GetText(soup)))

\* Faulty variant: a failed rendering is swallowed and the markdown left empty.
MarkdownOfOrEmpty(clean_html) == << >>

\* markdown_content = md(clean_html, heading_style="ATX") (main.py 249,
\* scraper_pipelines.py 63)
MarkdownOf(clean_html) == md(clean_html)

\* The locals at the end of the processing block, for orders o of the
\* list(set(...)) results.
Processed(f, doc, o) ==
    LET soup == ExtractionSoup(f, doc)
        clean_html == clean_and_organize_content(doc)
    IN [failed |-> "none", done |-> TRUE,
        soup |-> soup,
        clean_html |-> clean_html,
        markdown_content |-> MarkdownOf(clean_html),
        clean_body_html |-> CleanBodyHtml(doc),
        emails |-> o.emails,
        phones |-> PhoneList(soup),
        amounts |-> o.amounts,
        structured_data |->
            [tables |-> ExtractTables(soup),
             lists |-> ExtractLists(soup),
             headings |-> ExtractHeadings(soup),
             contact_info |-> [emails |-> o.emails, phones |-> o.phones,
                               names |-> o.names],
             dates |-> o.dates]]

\* Every way the set-to-list conversions can order their elements.
SetOrders(f, doc) ==
    LET soup == ExtractionSoup(f, doc)
    IN [emails : Orders(EmailSet(soup)),
        phones : Orders(Range(PhoneList(soup))),
        names : Orders(NameSet(soup)),
        dates : Orders(DateSet(soup)),
        amounts : Orders(AmountSet(soup))]

\* Faulty variant: a failing statement is skipped and the block goes on with empty
\* results.
ProcessFailedSkips(step) ==
    [failed |-> step, done |-> TRUE, soup |-> Soup(<< >>),
     clean_html |-> Soup(<< >>), markdown_content |-> << >>,
     clean_body_html |-> Soup(<< >>),
     emails |-> << >>, phones |-> << >>, amounts |-> << >>,
     structured_data |->
         [tables |-> << >>, lists |-> << >>, headings |-> << >>,
          contact_info |-> [emails |-> << >>, phones |-> << >>, names |-> << >>],
          dates |-> << >>]]

\* What a failure of processing statement `step` leaves: the block's handler
\* (main.py 277-278) or the function's handler (scraper_pipelines.py 87-88)
\* turns it into one HTTPException; no local survives.
ProcessFailed(step) == [failed |-> step, done |-> FALSE]

RECURSIVE SumLens(_, _)
SumLens(h, keys) ==
    IF keys = {} THEN 0
    ELSE LET k == CHOOSE x \in keys : TRUE
         IN Len(h[k]) + SumLens(h, keys \ {k})

\* Faulty variant: the image and link counters are taken after the slices.
MetadataOfReturned(f, title, pr, imgs, lnks) ==
    LET base == [title |-> title,
                 content_length |-> Len(pr.markdown_content),
                 images_count |->
                     IF f = "main" THEN Len(imgs)
                     ELSE IF Len(imgs) < ImageCap THEN Len(imgs) ELSE ImageCap,
                 links_count |-> IF Len(lnks) < LinkCap THEN Len(lnks) ELSE LinkCap,
                 amounts_found |-> Len(pr.amounts),
                 has_tables |-> Len(pr.structured_data.tables) > 0,
                 has_lists |-> Len(pr.structured_data.lists) > 0,
                 headings_count |-> SumLens(pr.structured_data.headings,
                                            DOMAIN pr.structured_data.headings)]
    IN IF f = "main"
         THEN base @@ [emails_found |-> Len(pr.emails),
                       phones_found |-> Len(pr.phones)]
         ELSE base

\* metadata (main.py 281-292, scraper_pipelines.py 67-76): the counters are
\* computed from the lists as collected, before links[:50] / images[:20].
Metadata(f, title, pr, imgs, lnks) ==
    LET base == [title |-> title,
                 content_length |-> Len(pr.markdown_content),
                 images_count |-> Len(imgs),
                 links_count |-> Len(lnks),
                 amounts_found |-> Len(pr.amounts),
                 has_tables |-> Len(pr.structured_data.tables) > 0,
                 has_lists |-> Len(pr.structured_data.lists) > 0,
                 headings_count |-> SumLens(pr.structured_data.headings,
                                            DOMAIN pr.structured_data.headings)]
    IN IF f = "main"
         THEN base @@ [emails_found |-> Len(pr.emails),
                       phones_found |-> Len(pr.phones)]
         ELSE base

\* Faulty variant: the slice keeps the last n elements.
Suffix(q, n) == SubSeq(q, IF Len(q) < n THEN 1 ELSE Len(q) - n + 1, Len(q))

\* q[:n]
Prefix(q, n) == SubSeq(q, 1, IF Len(q) < n THEN Len(q) ELSE n)

\* Faulty variant: the slice is dropped.
CapLinksOff(lnks) == lnks

\* links[:50] (main.py 301, scraper_pipelines.py 83)
CapLinks(lnks) == Prefix(lnks, LinkCap)

\* images[:20] (scraper_pipelines.py 82); main.py passes `images` whole
\* (line 300: "Ya no limitamos a 20 imagenes").
CapImages(f, imgs) == IF f = "main" THEN imgs ELSE Prefix(imgs, ImageCap)

PageUrl == "https://example.com/"
PageTitle == "Example"

\* The keyword arguments of ScrapedContent(...) (main.py 294-308,
\* scraper_pipelines.py 77-86).
ContentArgs(f, pr, imgs, lnks) ==
    IF f = "main"
      THEN [url |-> PageUrl, title |-> PageTitle,
            markdown_content |-> pr.markdown_content,
            clean_body_html |-> pr.clean_body_html,
            metadata |-> Metadata(f, PageTitle, pr, imgs, lnks),
            images |-> CapImages(f, imgs),
            links |-> CapLinks(lnks),
            amounts |-> pr.amounts,
            structured_data |-> pr.structured_data
                                @@ [emails |-> pr.emails, phones |-> pr.phones]]
      ELSE [url |-> PageUrl, title |-> PageTitle,
            markdown_content |-> pr.markdown_content,
            metadata |-> Metadata(f, PageTitle, pr, imgs, lnks),
            images |-> CapImages(f, imgs),
            links |-> CapLinks(lnks),
            amounts |-> pr.amounts,
            structured_data |-> pr.structured_data]

\* class ScrapedContent(BaseModel) (main.py 23-32): every field is required.
ScrapedContentFields ==
    {"url", "title", "markdown_content", "clean_body_html", "metadata",
     "images", "links", "amounts", "structured_data"}

\* Whether ScrapedContent(**args) validates.
Validates(args) == ScrapedContentFields \subseteq DOMAIN args

NoContent == [url |-> "none"]

(***************************************************************************)
(* Exceptions and the handlers of scrape_url_content and scrape_url.       *)
(***************************************************************************)
\* asyncio.TimeoutError, or any other Exception, raised by a page operation.
ExcKinds == {"TimeoutError", "Exception"}
PageOutcomes == {"ok"} \cup ExcKinds

NoExc == [kind |-> "none", status |-> 0, detail |-> "none"]
HTTPException(status, detail) ==
    [kind |-> "HTTPException", status |-> status, detail |-> detail]
Raw(kind, at) == [kind |-> kind, status |-> 0, detail |-> at]

HttpError == 500
HttpTimeout == 504
HttpOk == 200

\* main.py: the handler around the step `at`, for an exception of kind k:
\* the exception that leaves it and whether it calls browser.close().
\* Lines 165-166, 176-178, 183-188, 206-208, 235-237, 277-278; the settle
\* waits (198, 211) and the ScrapedContent(...) call have no handler.
LocalHandlerMain(at, k) ==
    CASE at = "launch" ->
           [exc |-> HTTPException(HttpError, "launch"), close |-> FALSE]
      [] at = "context" ->
           [exc |-> HTTPException(HttpError, "context"), close |-> TRUE]
      [] at = "goto" /\ k = "TimeoutError" ->
           [exc |-> HTTPException(HttpTimeout, "goto-timeout"), close |-> TRUE]
      [] at = "goto" /\ k # "TimeoutError" ->
           [exc |-> HTTPException(HttpError, "goto"), close |-> TRUE]
      [] at = "extract" ->
           [exc |-> HTTPException(HttpError, "extract"), close |-> TRUE]
      [] at = "evaluate" ->
           [exc |-> HTTPException(HttpError, "evaluate"), close |-> TRUE]
      [] at = "process" ->
           [exc |-> HTTPException(HttpError, "process"), close |-> FALSE]
      [] OTHER -> [exc |-> Raw(k, at), close |-> FALSE]

\* Faulty variant: the outer handler wraps every exception, HTTPException included.
OuterHandlerMainRemaps(e) == HTTPException(HttpError, "unexpected")

\* main.py 310-315: HTTPException is re-raised, anything else becomes 500.
OuterHandlerMain(e) ==
    IF e.kind = "HTTPException" THEN e
    ELSE HTTPException(HttpError, "unexpected")

\* scraper_pipelines.py 87-88: the only handler; everything becomes 500.
OuterHandlerPipelines(e) == HTTPException(HttpError, "pipeline")

\* main.py 389-390: the only handler of capture_screenshots_playwright;
\* everything becomes 500.
HandlerScreenshots(e) == HTTPException(HttpError, "screenshots")

\* What function f raises when its step `at` raises an exception of kind k,
\* and whether a handler calls browser.close() on the way.
RaisedBy(f, at, k) ==
    IF f = "main"
      THEN LET h == LocalHandlerMain(at, k)
           IN [exc |-> OuterHandlerMain(h.exc), close |-> h.close]
      ELSE IF f = "pipelines"
      THEN [exc |-> OuterHandlerPipelines(Raw(k, at)), close |-> FALSE]
      ELSE [exc |-> HandlerScreenshots(Raw(k, at)), close |-> FALSE]

\* scrape_url (main.py 478-505): the status answered for what
\* scrape_url_content raised.
ScrapeUrlStatus(e) ==
    IF e.kind = "HTTPException" THEN e.status
    ELSE IF e.kind = "TimeoutError" THEN HttpTimeout
    ELSE HttpError

\* Faulty variant: an unhandled dialog (False) is treated as a failure of the request.
DialogOutcomeFatal(f, r) ==
    IF r = "raised" \/ ~ret THEN "raise" ELSE "continue"

\* How the caller takes the end of handle_cookie_dialogs: scrape_url_content
\* of main.py wraps the call in try/except and goes on (190-195); the
\* controllers variant (36) and capture_screenshots_playwright (351) await
\* it bare, so only an exception would end the request.
DialogOutcome(f, r) ==
    IF r = "raised" /\ f # "main" THEN "raise" ELSE "continue"

(***************************************************************************)
(* scrape_url_content, step by step.                                       *)
(***************************************************************************)
Fail(at, k) ==
    LET r == RaisedBy(fn, at, k)
    IN /\ exc' = r.exc
       /\ origin' = Raw(k, at)
       /\ pc' = "raised"
       /\ closeCalls' = IF r.close THEN closeCalls + 1 ELSE closeCalls
       /\ browser' = IF r.close THEN "closed" ELSE browser

\* p.chromium.launch (main.py 154-166, scraper_pipelines.py 15-24)
Launch ==
    /\ pc = "launch"
    /\ \E o \in PageOutcomes :
         IF o = "ok"
           THEN pc' = "context" /\ browser' = "open"
                /\ UNCHANGED << closeCalls, exc, origin >>
           ELSE Fail("launch", o)
    /\ UNCHANGED << fn, html, images, links, proc, content, handled, response, rvars, svars, cvars >>

\* browser.new_context and context.new_page (168-178; 26-32)
NewContext ==
    /\ pc = "context"
    /\ \E o \in PageOutcomes :
         IF o = "ok"
           THEN pc' = "goto" /\ UNCHANGED << browser, closeCalls, exc, origin >>
           ELSE Fail("context", o)
    /\ UNCHANGED << fn, html, images, links, proc, content, handled, response, rvars, svars, cvars >>

\* page.goto (180-188; 33)
Goto ==
    /\ pc = "goto"
    /\ \E o \in PageOutcomes :
         IF o = "ok"
           THEN pc' = "dialog" /\ UNCHANGED << browser, closeCalls, exc, origin >>
           ELSE Fail("goto", o)
    /\ UNCHANGED << fn, html, images, links, proc, content, handled, response, rvars, svars, cvars >>

\* The call of handle_cookie_dialogs ends (190-195; 36): its locals are gone.
AfterDialog ==
    /\ pc = "dialog" /\ rpc \in {"returned", "raised"}
    /\ IF DialogOutcome(fn, rpc) = "continue"
         THEN pc' = "settle1" /\ UNCHANGED << browser, closeCalls, exc, origin >>
         ELSE Fail("dialog", "Exception")
    /\ handled' = IF rpc = "raised" THEN "raised"
                   ELSE IF ret THEN "true" ELSE "false"
    /\ rpc' = "idle" /\ idx' = 0 /\ fidx' = 0 /\ nframes' = 0 /\ ret' = FALSE
    /\ clicks' = 0 /\ firstClick' = "none" /\ tried' = NoTried /\ last' = NoStep
    /\ UNCHANGED << fn, html, images, links, proc, content, response, svars, cvars >>

\* page.wait_for_timeout(5000) (198; 39; 354)
Settle1 ==
    /\ pc = "settle1"
    /\ \E o \in PageOutcomes :
         IF o = "ok"
           THEN /\ pc' = IF fn = "screenshots" THEN "shots" ELSE "extract"
                /\ UNCHANGED << browser, closeCalls, exc, origin >>
           ELSE Fail("settle1", o)
    /\ UNCHANGED << fn, html, images, links, proc, content, handled, response, rvars, svars, cvars >>

\* page.title() and page.content() (200-208; 40-41)
ExtractBasic ==
    /\ pc = "extract"
    /\ \E o \in PageOutcomes :
         IF o = "ok"
           THEN /\ html' \in Docs
                /\ pc' = IF fn = "main" THEN "settle2" ELSE "evaluate"
                /\ UNCHANGED << browser, closeCalls, exc, origin >>
           ELSE Fail("extract", o) /\ html' = html
    /\ UNCHANGED << fn, images, links, proc, content, handled, response, rvars, svars, cvars >>

\* The second page.wait_for_timeout(5000), main.py only (211)
Settle2 ==
    /\ pc = "settle2"
    /\ \E o \in PageOutcomes :
         IF o = "ok"
           THEN pc' = "evaluate" /\ UNCHANGED << browser, closeCalls, exc, origin >>
           ELSE Fail("settle2", o)
    /\ UNCHANGED << fn, html, images, links, proc, content, handled, response, rvars, svars, cvars >>

\* The numbers of qualifying img and a[href] elements a page can have.
ImageCounts == {0, 1} \cup ((ImageCap - 1)..(ImageCap + Over))
LinkCounts == {0, 1} \cup ((LinkCap - 1)..(LinkCap + Over))

\* What page.evaluate returns for n qualifying elements: element k of the
\* page, in encounter order.
Collected(n) == [k \in 1..n |-> k]

\* The two page.evaluate calls (213-237; 42-59)
Evaluate ==
    /\ pc = "evaluate"
    /\ \E o \in PageOutcomes :
         IF o = "ok"
           THEN /\ \E ni \in ImageCounts, nl \in LinkCounts :
                     images' = Collected(ni) /\ links' = Collected(nl)
                /\ pc' = "close"
                /\ UNCHANGED << browser, closeCalls, exc, origin >>
           ELSE Fail("evaluate", o) /\ UNCHANGED << images, links >>
    /\ UNCHANGED << fn, html, proc, content, handled, response, rvars, svars, cvars >>

\* The keys of the dictionary capture_screenshots_playwright fills.
PageShots == {"full_screenshot", "viewport_screenshot"}
ElementShots == << "header", "main_content", "footer" >>

\* base64.b64encode(...).decode('utf-8') of one capture.
Png == "png"

\* What the capture of one element can observe (368-369, 374-375, 380-381):
\* locator.count() raised, was 0, or was positive with the screenshot
\* completing or raising.
ElementOutcomes == {"count-raise", "absent", "captured", "shot-raise"}

RECURSIVE CapturedFrom(_, _)
\* The element keys stored by the try block 365-383 for outcomes outs of its
\* three captures: an exception ends the block, what was stored stays.
CapturedFrom(k, outs) ==
    IF k > Len(ElementShots) \/ outs[k] \in {"count-raise", "shot-raise"} THEN {}
    ELSE (IF outs[k] = "captured" THEN {ElementShots[k]} ELSE {})
         \cup CapturedFrom(k + 1, outs)

\* Faulty variant: a failed element capture empties the dictionary.
AfterElementsResets(shots, outs) ==
    IF \E k \in 1..Len(outs) : outs[k] \in {"count-raise", "shot-raise"}
      THEN << >>
      ELSE shots @@ [key \in CapturedFrom(1, outs) |-> Png]

\* screenshots_base64 after the try block 365-385: the handler only prints.
AfterElements(shots, outs) ==
    shots @@ [key \in CapturedFrom(1, outs) |-> Png]

\* The two page.screenshot calls (356-362): full page and viewport, outside
\* any local handler.
Screenshot ==
    /\ pc = "shots"
    /\ \E o \in PageOutcomes :
         IF o = "ok"
           THEN /\ screenshots_base64' = [key \in PageShots |-> Png]
                /\ pc' = "elements"
                /\ UNCHANGED << browser, closeCalls, exc, origin >>
           ELSE Fail("shots", o) /\ screenshots_base64' = screenshots_base64
    /\ UNCHANGED << fn, html, images, links, proc, content, handled, response,
                    total_screenshots, rvars, svars >>

\* The captures of header, main content and footer (364-385).
ElementCaptures ==
    /\ pc = "elements"
    /\ \E outs \in [1..Len(ElementShots) -> ElementOutcomes] :
         screenshots_base64' = AfterElements(screenshots_base64, outs)
    /\ pc' = "close"
    /\ UNCHANGED << fn, browser, closeCalls, html, images, links, proc, content,
                    exc, origin, handled, response, total_screenshots, rvars, svars >>

\* browser.close() on the straight path (239; 60; 387)
CloseBrowser ==
    /\ pc = "close"
    /\ browser' = "closed" /\ closeCalls' = closeCalls + 1
    /\ pc' = IF fn = "screenshots" THEN "returned" ELSE "process"
    /\ UNCHANGED << fn, html, images, links, proc, content, exc, origin, handled, response, rvars, svars, cvars >>

\* The processing block (242-278; 61-66): it completes, or one of its
\* statements raises.
Process ==
    /\ pc = "process"
    /\ \/ \E o \in SetOrders(fn, html) :
            /\ proc' = Processed(fn, html, o)
            /\ pc' = "assemble"
            /\ UNCHANGED << browser, closeCalls, exc, origin >>
       \/ \E k \in 1..Len(ProcSteps(fn)) :
            /\ proc' = ProcessFailed(ProcSteps(fn)[k])
            /\ IF proc'.done THEN pc' = "assemble"
                                  /\ UNCHANGED << browser, closeCalls, exc, origin >>
                             ELSE Fail("process", "Exception")
    /\ UNCHANGED << fn, html, images, links, content, handled, response, rvars, svars, cvars >>

\* metadata and ScrapedContent(...) (280-308; 67-86)
Assemble ==
    /\ pc = "assemble"
    /\ content' = ContentArgs(fn, proc, images, links)
    /\ IF Validates(content')
         THEN pc' = "returned" /\ UNCHANGED << browser, closeCalls, exc, origin >>
         ELSE Fail("construct", "Exception")
    /\ UNCHANGED << fn, html, images, links, proc, handled, response, rvars, svars, cvars >>

\* scrape_url (457-505) answers for what main.py's scrape_url_content did,
\* get_screenshots (394-438) for capture_screenshots_playwright.
Respond ==
    /\ fn \in {"main", "screenshots"} /\ pc \in {"returned", "raised"}
    /\ response' = IF pc = "returned" THEN HttpOk ELSE ScrapeUrlStatus(exc)
    /\ total_screenshots' =
         IF fn = "screenshots" /\ pc = "returned"
           THEN Cardinality(DOMAIN screenshots_base64) ELSE total_screenshots
    /\ pc' = "responded"
    /\ UNCHANGED << fn, browser, closeCalls, html, images, links, proc,
                    content, exc, origin, handled, rvars, svars, screenshots_base64 >>

Request ==
    \/ Launch
    \/ NewContext
    \/ Goto
    \/ AfterDialog
    \/ Settle1
    \/ ExtractBasic
    \/ Settle2
    \/ Evaluate
    \/ Screenshot
    \/ ElementCaptures
    \/ CloseBrowser
    \/ Process
    \/ Assemble
    \/ Respond

Init ==
    /\ fn \in {"main", "pipelines", "screenshots"}
    /\ pc = "launch"
    /\ browser = "none" /\ closeCalls = 0
    /\ html = None /\ images = << >> /\ links = << >>
    /\ proc = NoProc /\ content = NoContent
    /\ exc = NoExc /\ origin = NoExc /\ handled = "none" /\ response = 0
    /\ rpc = "idle" /\ idx = 0 /\ fidx = 0 /\ nframes = 0 /\ ret = FALSE
    /\ clicks = 0 /\ firstClick = "none" /\ tried = NoTried /\ last = NoStep
    /\ req = << >> /\ chromium = {}
    /\ screenshots_base64 = << >> /\ total_screenshots = 0

Next == Request \/ Resolver

Spec == Init /\ [][Next]_vars

\* Every awaited operation of handle_cookie_dialogs completes or raises
\* (clicks carry timeout=2000, the waits are timed), so a started invocation
\* keeps taking steps.
FairSpec == Init /\ [][Next]_vars /\ WF_vars(Resolver)

(***************************************************************************)
(* The server under several requests (src/main.py).  A request handler is  *)
(* a coroutine; control passes to another request at an await only, and    *)
(* consecutive awaits on the request's own page are taken as one step.     *)
(* Requests are served by interpreter processes (workers, or the server    *)
(* before and after a restart); each process has its own string-hash seed, *)
(* named here by the process.                                              *)
(***************************************************************************)
NReqs == 2
NProcs == 2
Reqs == 1..NReqs
Procs == 1..NProcs
Kinds == {"scrape", "screenshots"}

\* The pages a request can be shown.
ServerDocs == {DocTypical, DocEmpty}

NoPage == [html |-> None, images |-> << >>, links |-> << >>]
NoReq == [kind |-> "none", proc |-> 0, pc |-> "idle", browser |-> 0,
          page |-> NoPage, result |-> NoContent, status |-> 0,
          hitClosed |-> FALSE]

Reverse(q) == [k \in 1..Len(q) |-> q[Len(q) + 1 - k]]

\* list(set(xs)) in a process whose hash seed is sd: the seed fixes the
\* iteration order of the set, and another seed can give another order.
OrderOf(sd, S) ==
    LET q == CHOOSE o \in Orders(S) : TRUE
    IN IF sd % 2 = 1 THEN q ELSE Reverse(q)

\* The list(set(...)) results of one run of the processing block.
SeedOrders(sd, f, doc) ==
    LET soup == ExtractionSoup(f, doc)
    IN [emails |-> OrderOf(sd, EmailSet(soup)),
        phones |-> OrderOf(sd, Range(PhoneList(soup))),
        names |-> OrderOf(sd, NameSet(soup)),
        dates |-> OrderOf(sd, DateSet(soup)),
        amounts |-> OrderOf(sd, AmountSet(soup))]

\* Faulty variant: every run orders its sets by a seed of its own.
HashSeedPerRequest(r, p) == r

\* The hash seed under which request r runs in process p: that of p.
HashSeed(r, p) == p

\* chromium holds the running browsers as [id, owner]; a closed browser is
\* gone from it.
Running(b) == \E x \in chromium : x.id = b

\* The handle of a newly launched browser: one no running browser has.
NewBrowser == CHOOSE b \in 1..(Cardinality(chromium) + 1) : ~Running(b)

\* Faulty variant: closing a browser ends every running browser.
ClosesAll(b) == {x.id : x \in chromium}

\* browser.close() closes the browser it is called on, and leaving
\* `async with async_playwright()` stops the request's own driver.
Closes(b) == {b}

Closed(hs) == {x \in chromium : x.id \notin hs}

\* An operation on a page of browser b: it raises when the browser is
\* closed, and can raise anyway.
PageOpOutcomes(b) == IF Running(b) THEN PageOutcomes ELSE ExcKinds

\* The status answered when step `at` of a request raised an exception of
\* kind k: scrape_url_content and scrape_url (main.py 149-315, 478-505);
\* capture_screenshots_playwright turns everything into 500 (389-390).
SrvStatus(kind, at, k) ==
    IF kind = "scrape" THEN ScrapeUrlStatus(RaisedBy("main", at, k).exc)
    ELSE HttpError

\* Request r ends with an exception of step `at`: its function is left, and
\* with it its locals, its playwright driver and the browser it launched.
SrvFail(r, at, k) ==
    /\ req' = [req EXCEPT ![r] =
                  [NoReq EXCEPT !.kind = req[r].kind, !.pc = "failed",
                                !.status = SrvStatus(req[r].kind, at, k),
                                !.hitClosed = req[r].browser # 0
                                              /\ ~Running(req[r].browser)]]
    /\ chromium' = Closed(Closes(req[r].browser))

\* POST /scrape or POST /screenshots arrives (457-479, 394-405).
SrvAccept(r) ==
    /\ req[r].pc = "idle"
    /\ \E k \in Kinds :
         req' = [req EXCEPT ![r] = [NoReq EXCEPT !.kind = k, !.pc = "launch"]]
    /\ UNCHANGED << chromium, qvars, rvars >>

\* p.chromium.launch (155-166, 324-333): a new browser for this request.
SrvLaunch(r) ==
    /\ req[r].pc = "launch"
    /\ \E o \in PageOutcomes :
         IF o = "ok"
           THEN /\ chromium' = chromium \cup {[id |-> NewBrowser, owner |-> r]}
                /\ req' = [req EXCEPT ![r].browser = NewBrowser,
                                      ![r].pc = "context"]
           ELSE SrvFail(r, "launch", o)
    /\ UNCHANGED << qvars, rvars >>

\* browser.new_context and context.new_page (168-178, 335-342)
SrvNewPage(r) ==
    /\ req[r].pc = "context"
    /\ \E o \in PageOpOutcomes(req[r].browser) :
         IF o = "ok"
           THEN req' = [req EXCEPT ![r].pc = "goto"] /\ chromium' = chromium
           ELSE SrvFail(r, "context", o)
    /\ UNCHANGED << qvars, rvars >>

\* page.goto, handle_cookie_dialogs and the settle wait (180-198, 345-354)
SrvGoto(r) ==
    /\ req[r].pc = "goto"
    /\ \E o \in PageOpOutcomes(req[r].browser) :
         IF o = "ok"
           THEN req' = [req EXCEPT ![r].pc = "read"] /\ chromium' = chromium
           ELSE SrvFail(r, "goto", o)
    /\ UNCHANGED << qvars, rvars >>

\* page.title, page.content and the two page.evaluate (200-237), or the
\* page.screenshot calls (356-385)
SrvRead(r) ==
    /\ req[r].pc = "read"
    /\ \E o \in PageOpOutcomes(req[r].browser) :
         IF o = "ok"
           THEN /\ \E doc \in ServerDocs :
                     req' = [req EXCEPT ![r].pc = "close",
                                        ![r].page = [html |-> doc,
                                                     images |-> Collected(1),
                                                     links |-> Collected(1)]]
                /\ chromium' = chromium
           ELSE SrvFail(r, "extract", o)
    /\ UNCHANGED << qvars, rvars >>

\* The dictionary capture_screenshots_playwright returns (357-392) for the
\* page shown.
Screenshots(doc) ==
    [full_screenshot |-> doc, viewport_screenshot |-> doc]

\* browser.close() on the straight path (239, 387); /screenshots answers.
SrvClose(r) ==
    /\ req[r].pc = "close"
    /\ chromium' = Closed(Closes(req[r].browser))
    /\ req' = IF req[r].kind = "scrape"
                THEN [req EXCEPT ![r].pc = "process", ![r].browser = 0]
                ELSE [req EXCEPT ![r].pc = "done", ![r].browser = 0,
                                 ![r].status = HttpOk,
                                 ![r].result = Screenshots(req[r].page.html)]
    /\ UNCHANGED << qvars, rvars >>

\* The processing block, metadata and ScrapedContent(...) of a scrape
\* request (242-308); /scrape answers.  The process serving the request
\* matters to the order of its sets only, and is drawn here.
SrvProcess(r) ==
    /\ req[r].pc = "process"
    /\ \/ \E p \in Procs :
            LET pg == req[r].page
                pr == Processed("main", pg.html,
                                SeedOrders(HashSeed(r, p), "main", pg.html))
            IN req' = [req EXCEPT ![r].pc = "done", ![r].status = HttpOk,
                                  ![r].proc = p,
                                  ![r].result = ContentArgs("main", pr, pg.images,
                                                            pg.links)]
       \/ req' = [req EXCEPT ![r] =
                     [NoReq EXCEPT !.kind = "scrape", !.pc = "failed",
                                   !.status = SrvStatus("scrape", "process",
                                                        "Exception")]]
    /\ UNCHANGED << chromium, qvars, rvars >>

InitServer ==
    /\ fn = "main" /\ pc = "launch"
    /\ browser = "none" /\ closeCalls = 0
    /\ html = None /\ images = << >> /\ links = << >>
    /\ proc = NoProc /\ content = NoContent
    /\ exc = NoExc /\ origin = NoExc /\ handled = "none" /\ response = 0
    /\ rpc = "idle" /\ idx = 0 /\ fidx = 0 /\ nframes = 0 /\ ret = FALSE
    /\ clicks = 0 /\ firstClick = "none" /\ tried = NoTried /\ last = NoStep
    /\ req = [r \in Reqs |-> NoReq] /\ chromium = {}
    /\ screenshots_base64 = << >> /\ total_screenshots = 0

NextServer ==
    \/ \E r \in Reqs : SrvAccept(r)
    \/ \E r \in Reqs : SrvLaunch(r)
    \/ \E r \in Reqs : SrvNewPage(r)
    \/ \E r \in Reqs : SrvGoto(r)
    \/ \E r \in Reqs : SrvRead(r)
    \/ \E r \in Reqs : SrvClose(r)
    \/ \E r \in Reqs : SrvProcess(r)

SpecServer == InitServer /\ [][NextServer]_vars

(***************************************************************************)
(* Properties.                                                             *)
(***************************************************************************)
\* The function under request has ended, by return or by raise.
Ended == pc \in {"raised", "returned", "responded"}
\* scrape_url_content returned a ScrapedContent.
Returned == fn # "screenshots" /\ exc = NoExc /\ pc \in {"returned", "responded"}
\* The initial settle wait of the resolver raised.
InitialWaitRaised == last.strategy = "wait" /\ last.wait = "raise"
\* Every candidate of every strategy was attempted.
Exhausted ==
    /\ tried.text = NLabels
    /\ tried.selector = NSelectors
    /\ tried.frame = nframes * NLabels

\* C1: once a text-match click on the main page has succeeded, no call of
\* the selector strategy and no call of the frame strategy is ever made in
\* that invocation.
C1_TextClickShortCircuits ==
    firstClick = "text" => (tried.selector = 0 /\ tried.frame = 0)

\* C2: handle_cookie_dialogs returns True if and only if at least one click
\* call completed successfully during the invocation.
C2_TrueIffClicked ==
    rpc = "returned" => (ret <=> clicks > 0)

\* C3: handle_cookie_dialogs never raises past its boundary: whichever page
\* operation fails, the invocation ends by returning, and it returns False
\* when no click succeeded; the caller never sees an exception of the
\* dialog step.
C3_NeverRaises ==
    /\ rpc # "raised"
    /\ handled # "raised"
    /\ origin.detail # "dialog"
    /\ (rpc = "returned" /\ clicks = 0) => ret = FALSE

\* C3 witness: the resolver returned False after page.frames raised, having
\* gone through failures of every label and every selector.
C3_Witness ==
    /\ rpc = "returned" /\ ~ret /\ clicks = 0
    /\ last.strategy = "frames" /\ last.count = "raise"

\* C4 (as claimed): False is returned only after every label was attempted
\* on the main page, every selector was probed and every label was probed
\* in every frame.
C4_FalseOnlyWhenExhausted ==
    (rpc = "returned" /\ ~ret) => Exhausted

\* C4 (amended): False is returned either at once, when the initial settle
\* wait raised, or after every label was attempted on the main page, every
\* selector was probed and every label was probed in every frame that
\* page.frames gave (none when reading page.frames raised).
C4_FalseOnlyWhenExhaustedOrWaitRaised ==
    (rpc = "returned" /\ ~ret) =>
        \/ InitialWaitRaised /\ tried = NoTried
        \/ Exhausted /\ (nframes > 0 \/ last.strategy = "frames")

\* C4 witness: False after every candidate failed in every frame.
C4_Witness ==
    /\ rpc = "returned" /\ ~ret
    /\ nframes > 0 /\ tried.frame = nframes * NLabels
    /\ tried.text = NLabels /\ tried.selector = NSelectors

\* C5: an exception of one attempt is swallowed and the very next candidate
\* of the same strategy is attempted: the resolver neither returns, nor
\* skips a candidate, nor leaves the strategy while candidates remain.
C5_NextCandidateAfterException ==
    [][ (rpc \in {"text", "selector", "frame"} /\ Raised(last'))
          => /\ rpc' \notin {"returned", "raised"}
             /\ (rpc = "text" /\ idx < NLabels)
                   => (rpc' = "text" /\ idx' = idx + 1)
             /\ (rpc = "selector" /\ idx < NSelectors)
                   => (rpc' = "selector" /\ idx' = idx + 1)
             /\ (rpc = "frame" /\ idx < NLabels)
                   => (rpc' = "frame" /\ fidx' = fidx /\ idx' = idx + 1)
             /\ (rpc = "text" /\ idx = NLabels) => rpc' = "selector"
             /\ (rpc = "selector" /\ idx = NSelectors) => rpc' = "frames"
             /\ (rpc = "frame" /\ idx = NLabels /\ fidx < nframes)
                   => (rpc' = "frame" /\ fidx' = fidx + 1 /\ idx' = 1)
      ]_vars

\* C5 witness: in a frame, a click raised and the next label of the same
\* frame is the current candidate.
C5_Witness ==
    /\ rpc = "frame" /\ last.strategy = "frame" /\ last.click = "raise"
    /\ fidx = last.frame /\ idx = last.idx + 1

\* C6: the dialog step never ends a scrape request: however the resolver
\* ended, the request goes on to the settle wait before title/HTML
\* extraction, with no exception and the browser untouched.
C6_DialogNeverFatal ==
    [][ pc = "dialog"
          => /\ pc' \in {"dialog", "settle1"}
             /\ exc' = NoExc /\ origin' = NoExc
             /\ browser' = browser /\ closeCalls' = closeCalls
      ]_vars

\* C6 witness: no dialog was handled and the page's title and HTML were read.
C6_Witness == handled = "false" /\ html # None /\ pc = "evaluate"

\* C7 (as claimed): a returned ScrapedContent has at most 20 images and at
\* most 50 links.
C7_CapsHold ==
    Returned => (Len(content.images) <= ImageCap /\ Len(content.links) <= LinkCap)

\* C7 (amended): every ScrapedContent built has at most 50 links; images are
\* cut to 20 only by the controllers variant, while main.py passes every
\* collected image on.
C7_LinksCappedImagesOnlyInPipelines ==
    content # NoContent =>
        /\ Len(content.links) <= LinkCap
        /\ fn = "pipelines" => Len(content.images) <= ImageCap
        /\ fn = "main" => content.images = images

\* C7 witness: a result is returned for a page with more links than the cap.
C7_Witness == Returned /\ Len(links) > LinkCap /\ Len(content.links) = LinkCap

C10_RendererFailureFatal ==
    /\ proc.failed = "md" =>
          /\ pc \in {"raised", "responded"}
          /\ exc.kind = "HTTPException" /\ exc.status = HttpError
          /\ content = NoContent
    /\ content # NoContent =>
          /\ content.markdown_content = md(clean_and_organize_content(html))
          /\ html = DocTypical =>
                content.markdown_content =
                    << "#", "Prices", "Total:", "$1,200.50", "Item" >>

\* C10 witness: the renderer raised and /scrape answered 500.
C10_Witness == fn = "main" /\ proc.failed = "md" /\ response = HttpError

\* The elements called `names` below n that have a descendant called `inner`.
Having(n, names, inner) ==
    SelectSeq(FindAll(n, names), LAMBDA e : FindAll(e, inner) # << >>)

\* C11 (as claimed): no emitted row consists of empty strings only, so a
\* table whose single row holds a single empty cell yields no table.
C11_BlankRowsExcluded ==
    proc.done =>
        /\ \A t \in Range(proc.structured_data.tables) : \A row \in Range(t) :
               \E c \in 1..Len(row) : row[c] # << >>
        /\ html = DocArticleMain => proc.structured_data.tables = << >>

\* C11 (amended): a row is excluded only when it has no td/th cell, and a
\* table only when none of its rows has a cell; a row whose cells are all
\* empty strings is kept, so a table with a single row holding a single
\* empty cell yields one table with the one row [""].
C11_CellLessRowsExcluded ==
    proc.done =>
        LET tables == proc.structured_data.tables
            Cell == {"td", "th"}
        IN /\ \A t \in Range(tables) : t # << >> /\ \A row \in Range(t) : row # << >>
           /\ Len(tables) = Len(SelectSeq(FindAll(html, {"table"}),
                                 LAMBDA t : Having(t, {"tr"}, Cell) # << >>))
           /\ html = DocArticleMain => tables = << << << << >> >> >> >>
           /\ html = DocTables => tables = << << << << >>, << >> >> >> >>
           /\ html = DocTypical => tables = << << << << "Item" >>, << >> >> >> >>

\* C11 witness: the page whose only table has one row with one empty cell
\* was processed.
C11_Witness ==
    /\ proc.done /\ html = DocArticleMain
    /\ Len(proc.structured_data.tables) = 1

\* C12 (as claimed): main is returned for every document that contains an
\* article and a main, and the third rule takes the first element of any
\* kind whose class matches.
C12_MainThenArticleThenAnyClass ==
    proc.done =>
        LET cleaned == Decompose(html, UnwantedTags)
            classed == SelectSeq(Descendants(cleaned),
                                 LAMBDA d : d.cls \in ContentClasses)
        IN /\ (Find(html, {"main"}) # None /\ Find(html, {"article"}) # None)
                 => proc.clean_html.tag = "main"
           /\ (Find(cleaned, {"main", "article"}) = None /\ classed # << >>)
                 => proc.clean_html = classed[1]

\* C12 (amended): the content root is the first main element that survives
\* cleaning, else the first surviving article, else the first surviving
\* div whose class matches content|main|article, else the whole cleaned
\* document; when a main survives it is returned whatever the position of
\* an article, and a main removed with an unwanted ancestor is not.
C12_MainThenArticleThenContentDiv ==
    proc.done =>
        LET cleaned == Decompose(html, UnwantedTags)
            mains == FindAll(cleaned, {"main"})
            articles == FindAll(cleaned, {"article"})
            divs == SelectSeq(FindAll(cleaned, {"div"}),
                              LAMBDA d : d.cls \in ContentClasses)
            root == proc.clean_html
        IN /\ mains # << >> => root = mains[1]
           /\ (mains = << >> /\ articles # << >>) => root = articles[1]
           /\ (mains = << >> /\ articles = << >> /\ divs # << >>) => root = divs[1]
           /\ (mains = << >> /\ articles = << >> /\ divs = << >>) => root = cleaned
           /\ html = DocArticleMain => root.tag = "main"
           /\ html = DocSection => root.cls = "article-body"
           /\ html = DocMainAside => root.tag = "article"

\* C12 witness: a page whose article precedes its main was cleaned.
C12_Witness ==
    /\ proc.done /\ html = DocArticleMain
    /\ proc.clean_html = El("main", "", << P(<< "a.b+c@test.co.uk" >>) >>)

\* C13: whatever root is selected, the tree clean_and_organize_content
\* returns holds no script, style, nav, footer, header or aside element at
\* any depth.
C13_NoUnwantedNode ==
    proc.done =>
        \A d \in Range(<< proc.clean_html >> \o Descendants(proc.clean_html)) :
            d.tag \notin UnwantedTags

\* C13 witness: the selected root is an article that held unwanted elements
\* at several depths, and text of its own is left.
C13_Witness ==
    /\ proc.done /\ html = DocMainAside
    /\ FindAll(Find(html, {"article"}), UnwantedTags) # << >>
    /\ GetText(proc.clean_html) = << "T", "A" >>

\* C14: the list emitted for a ul/ol holds the text of exactly its direct li
\* children, so the items of a nested list appear in the nested list's own
\* entry only.
C14_DirectItemsOnly ==
    proc.done =>
        LET uls == FindAll(proc.soup, {"ul", "ol"})
            DirectItems(ul) ==
                LET lis == SelectSeq(ul.kids, LAMBDA k : k.tag = "li")
                IN [c \in 1..Len(lis) |-> GetTextStrip(lis[c])]
        IN proc.structured_data.lists =
               SelectSeq([u \in 1..Len(uls) |-> DirectItems(uls[u])],
                         LAMBDA items : items # << >>)

\* C15 (as claimed): the tree given to the extractors is the document as
\* parsed, and the amounts are those of its whole text.
C15_ExtractorsSeeParsedTree ==
    proc.done => (proc.soup = html /\ Range(proc.amounts) = AmountSet(html))

\* C15 (amended): the extractors are given the parsed document, never the
\* cleaned or narrowed one, so tables, lists and headings inside
\* nav/header/footer/aside or outside the content root are kept; but in
\* main.py the script and style elements below body are removed from that
\* tree before extraction, so their text yields no amounts, while the
\* controllers variant extracts from the tree as parsed.
C15_ParsedTreeLessBodyScripts ==
    proc.done =>
        LET Kept == {"table", "tr", "td", "th", "ul", "ol", "li", "nav", "header",
                     "footer", "aside", "main", "article"} \cup HeadingTags
            body == Find(proc.soup, {"body"})
            Scripts == {"script", "style"}
        IN /\ FindAll(Decompose(proc.soup, Scripts), Kept)
                 = FindAll(Decompose(html, Scripts), Kept)
           /\ fn = "pipelines" => proc.soup = html
           /\ (fn = "main" /\ body # None)
                 => FindAll(body, Scripts) = << >>
           /\ (fn = "main" /\ body = None) => proc.soup = html
           /\ html = DocTypical =>
                 /\ proc.structured_data.lists = << << << "Home" >>, << "About" >> >> >>
                 /\ "var x" \in Range(GetText(proc.soup))
                 /\ "€300" \in Range(proc.amounts) <=> fn = "pipelines"
           /\ html = DocArticleMain =>
                 /\ Len(proc.structured_data.tables) = 1
                 /\ proc.structured_data.headings = [h \in {"h2"} |-> << << "News" >> >>]

\* C15 witness: main.py processed the typical page: the list inside
\* header/nav is extracted and the amount inside the body script is not.
C15_Witness ==
    /\ proc.done /\ fn = "main" /\ html = DocTypical
    /\ proc.structured_data.lists # << >>
    /\ "€300" \notin Range(proc.amounts)
    /\ proc.soup # html

\* C16 (as claimed): in a returned ScrapedContent the image and link
\* counters are the lengths of the returned sequences.
C16_CountersOfReturned ==
    Returned =>
        /\ content.metadata.images_count = Len(content.images)
        /\ content.metadata.links_count = Len(content.links)

\* C16 (amended): images_count and links_count are the numbers of images and
\* links collected from the page, before truncation, so links_count exceeds
\* the length of the returned links when more than 50 were collected;
\* amounts_found, has_tables, has_lists and headings_count agree with the
\* amounts and the structured_data of the same result.
C16_CountersOfCollected ==
    content # NoContent =>
        LET m == content.metadata
            sd == content.structured_data
        IN /\ m.images_count = Len(images)
           /\ m.links_count = Len(links)
           /\ m.links_count >= Len(content.links)
           /\ m.amounts_found = Len(content.amounts)
           /\ m.has_tables <=> sd.tables # << >>
           /\ m.has_lists <=> sd.lists # << >>
           /\ m.headings_count = Len(FindAll(proc.soup, HeadingTags))
           /\ html = DocPlain => m.headings_count = 3

\* C16 witness: a result is returned for a page with tables and more links
\* than the cap; links_count is the number collected.
C16_Witness ==
    /\ Returned /\ html = DocTypical
    /\ content.metadata.links_count = LinkCap + 1
    /\ Len(content.links) = LinkCap
    /\ content.metadata.has_tables

\* C19: the links of a ScrapedContent are the first 50 of the links collected
\* from the page, in the order collected; its images are the first 20 of the
\* collected images in the controllers variant and all of them in main.py.
\* No element is reordered or dropped in favour of a later one.
C19_PrefixInEncounterOrder ==
    content # NoContent =>
        LET Min(a, b) == IF a < b THEN a ELSE b
        IN /\ Len(content.links) = Min(Len(links), LinkCap)
           /\ \A k \in 1..Len(content.links) :
                 content.links[k] = links[k] /\ content.links[k] = k
           /\ Len(content.images) =
                 IF fn = "main" THEN Len(images) ELSE Min(Len(images), ImageCap)
           /\ \A k \in 1..Len(content.images) :
                 content.images[k] = images[k] /\ content.images[k] = k

\* C19 witness: the controllers variant cut both sequences.
C19_Witness ==
    /\ content # NoContent /\ fn = "pipelines"
    /\ Len(images) > ImageCap /\ Len(links) > LinkCap
    /\ content.images[ImageCap] = ImageCap /\ content.links[LinkCap] = LinkCap

\* C20: the selector strategy starts only after every label was attempted on
\* the main page, a selector's click is issued only when its locator count
\* is positive, and the resolver returns True at the first selector whose
\* click succeeds.
C20_SelectorClickReturnsTrue ==
    /\ tried.selector > 0 => tried.text = NLabels
    /\ (last.strategy = "selector" /\ last.click # "skip") => last.count = "pos"
    /\ (last.strategy = "selector" /\ last.click = "ok")
          => (rpc = "returned" /\ ret)

\* Request r is a scrape request that was answered with a ScrapedContent.
Scraped(r) == req[r].kind = "scrape" /\ req[r].pc = "done"

\* Two sequences list the same elements, each once.
SameElements(a, b) ==
    /\ Range(a) = Range(b) /\ Len(a) = Len(b)
    /\ Cardinality(Range(a)) = Len(a)

C18_RequestsIsolated ==
    /\ \A x, y \in chromium : x.id = y.id => x = y
    /\ \A r \in Reqs :
          /\ ~req[r].hitClosed
          /\ req[r].browser # 0 <=> req[r].pc \in {"context", "goto", "read", "close"}
          /\ req[r].browser # 0 =>
                /\ [id |-> req[r].browser, owner |-> r] \in chromium
                /\ \A s \in Reqs \ {r} : req[r].browser # req[s].browser
          /\ Scraped(r) =>
                /\ req[r].result.clean_body_html = CleanBodyHtml(req[r].page.html)
                /\ req[r].result.links = req[r].page.links
          /\ (req[r].kind = "screenshots" /\ req[r].pc = "done")
                => req[r].result = Screenshots(req[r].page.html)

\* C18 witness: a scrape request was launched, served and its browser closed
\* while a screenshot request launched before it is still reading its page
\* in its own, running browser.
C18_Witness ==
    /\ req[1].kind = "scrape" /\ req[1].pc = "done"
    /\ req[2].kind = "screenshots" /\ req[2].pc = "read"
    /\ chromium = {[id |-> 1, owner |-> 2]}

\* C21: the frame retry starts only after every label and every selector was
\* attempted on the page; its attempts go through the frames of page.frames
\* in order and, inside a frame, through the labels in order; a click is
\* issued only for a positive locator count; and a failure in one frame is
\* followed by the remaining labels and frames.
C21_FrameMajorAfterPageStrategies ==
    /\ (rpc \in {"frames", "frame", "end"} \/ tried.frame > 0)
          => (tried.text = NLabels /\ tried.selector = NSelectors)
    /\ rpc = "frame" =>
          /\ fidx \in 1..nframes /\ idx \in 1..NLabels
          /\ tried.frame = (fidx - 1) * NLabels + (idx - 1)
    /\ last.strategy = "frame" =>
          /\ tried.frame = (last.frame - 1) * NLabels + last.idx
          /\ last.click # "skip" => last.count = "pos"
          /\ (Raised(last) /\ tried.frame < nframes * NLabels) => rpc = "frame"
    /\ (rpc = "end" /\ nframes > 0) => tried.frame = nframes * NLabels

\* C21 witness: the click of the last label raised in the first frame and
\* the first label of the second frame is the current candidate.
C21_Witness ==
    /\ rpc = "frame" /\ fidx = 2 /\ idx = 1
    /\ last.strategy = "frame" /\ last.frame = 1 /\ last.idx = NLabels
    /\ last.click = "raise"

\* The function has ended after launching a browser.
EndedLaunched == Ended /\ browser # "none"

\* C22: on every path with a launched browser, browser.close()
\* has been called exactly once when the function returns or raises.
C22_ClosedExactlyOnce == EndedLaunched => closeCalls = 1

\* C23: in one invocation of handle_cookie_dialogs at most one click
\* completes successfully.
C23_AtMostOneClick == clicks <= 1

\* The order of the positions of handle_cookie_dialogs.
Rank(p) ==
    CASE p = "idle" -> 0 [] p = "text" -> 1 [] p = "selector" -> 2
      [] p = "frames" -> 3 [] p = "frame" -> 4 [] p = "end" -> 5
      [] OTHER -> 6

C25_ElementFailuresHarmless ==
    /\ [](fn = "screenshots" =>
            /\ (pc \in {"elements", "close", "returned"} \/ response = HttpOk)
                  => PageShots \subseteq DOMAIN screenshots_base64
            /\ response = HttpOk
                  => total_screenshots = Cardinality(DOMAIN screenshots_base64)
            /\ response = HttpError => total_screenshots = 0)
    /\ [][fn = "screenshots" =>
            /\ DOMAIN screenshots_base64 \subseteq DOMAIN screenshots_base64'
            /\ pc = "elements" => (pc' = "close" /\ exc' = NoExc)]_vars

\* C25 witness: the header was captured, the capture of the main content
\* raised, and /screenshots answered 200 with three screenshots.
C25_Witness ==
    /\ fn = "screenshots" /\ response = HttpOk
    /\ DOMAIN screenshots_base64 = PageShots \cup {"header"}
    /\ total_screenshots = 3

=============================================================================
